---- MODULE Spec2Model ----
(***************************************************************************)
(* Model of wallet_tracker_bot.py: main(), WalletTracker.__init__, the     *)
(* polling loop start_tracking, the scan check_wallet_transactions, the    *)
(* validator is_valid_transaction, the detached alert tasks                *)
(* send_telegram_message and the handler of SIGINT/SIGTERM signal_handler. *)
(***************************************************************************)
EXTENDS Integers, Sequences, FiniteSets, TLC

\* ------------------------------------------------------------------ bounds
MaxHead == 2          \* block numbers the RPC clients report are 0..MaxHead
MaxTxPerBlock == 2    \* transactions per fetched block
MaxCarry == 0         \* alert tasks still pending when the sleep timer fires

\* --------------------------------------------------------------- constants
\* blockchain_configs is a dict literal: its iteration order is the order of
\* the literal, ethereum first.
Chains == <<"ethereum", "base">>
ChainSet == {Chains[i] : i \in 1..Len(Chains)}

NoneVal == "None"

\* Raw configured entries as str.split(',') yields them: "" is the only entry
\* of an unset variable, " " a whitespace-only entry, " A2" an entry with
\* surrounding whitespace, "zz" a string that is no 20-byte hex address.
strip(s) ==
  CASE s = " "   -> ""
    [] s = " A2" -> "A2"
    [] OTHER     -> s

\* str.lower() on the address forms of the model (a1/a2/x are the lower-case
\* spellings, A1/A2/X the checksum-cased ones).
lower(s) ==
  CASE s = "A1" -> "a1"
    [] s = "A2" -> "a2"
    [] s = "X"  -> "x"
    [] OTHER    -> s

is_hex_address(s) == s \in {"a1", "a2", "x"}

\* Web3.to_checksum_address on a well-formed lower-case address.
to_checksum_address(s) ==
  CASE s = "a1" -> "A1"
    [] s = "a2" -> "A2"
    [] s = "x"  -> "X"
    [] OTHER    -> s

\* main.safe_split: strip every entry, drop the empty ones.
safe_split(entries) ==
  SelectSeq([i \in 1..Len(entries) |-> strip(entries[i])], LAMBDA e : e # "")

\* The environment: what os.getenv returns (lists already split on ',').
EnvWalletLists == { <<"">>, <<"a1", " A2">>, <<"a1", "zz">> }
EnvNameLists   == { <<"">>, <<"N1">>, <<"N1", "N2">> }

\* Transactions the RPC may return inside a block.  hash: "ok" is a 32-byte
\* hash, "none" a falsy hash, "short" a hash whose hex form is not 66
\* characters.  receipt: what get_transaction_receipt does for the hash:
\* "ok" status 1, "failed" status 0, "absent" None, "error" raises.
Tx(f, t, h, r) == [from |-> f, to |-> t, hash |-> h, receipt |-> r]
TxPool ==
  { Tx("A1", "X", "ok", "ok"),
    Tx("X", "A2", "ok", "error"),
    Tx("A2", "A1", "ok", "ok"),
    Tx("A1", NoneVal, "ok", "absent"),
    Tx("A1", "A2", "ok", "failed"),
    Tx("X", "X", "ok", "ok"),
    Tx("A1", "X", "short", "ok"),
    Tx("X", "A1", "none", "ok") }

\* The transactions that occur in blocks of more than one transaction.
PairPool ==
  { Tx("A1", "X", "ok", "ok"),
    Tx("X", "A2", "ok", "error"),
    Tx("A1", "A2", "ok", "failed") }

RECURSIVE SeqsUpTo(_, _)
SeqsUpTo(S, n) ==
  IF n = 0 THEN { <<>> }
  ELSE LET shorter == SeqsUpTo(S, n - 1)
       IN shorter \cup { Append(s, x) : s \in shorter, x \in S }

Blocks == SeqsUpTo(TxPool, 1) \cup SeqsUpTo(PairPool, MaxTxPerBlock)

\* ------------------------------------------------------------------- state
VARIABLES
  env,            \* os.getenv: [token, chat, wallets, names]
  pc,             \* position of main / start_tracking
  bot_instance,   \* module global set by main
  wallets,        \* self.wallets: chain -> list of checksum addresses
  wallet_names,   \* self.wallet_names: chain -> list of labels
  last_blocks,    \* self.last_blocks: chain -> cursor
  ci,             \* index into Chains of the chain the scan is at
  current_block,  \* head observed for the chain being scanned
  block_num,      \* next block of the range to fetch
  tasks,          \* alert tasks created and not yet run, in creation order
  exc,            \* exception that ended main or the current tick's scan
  scanlog,        \* per chain, what this tick's scan did (history)
  fetched,        \* the block the latest step fetched (history)
  last_send,      \* outcome of the latest alert task run in this sleep
  sig,            \* what the signal handler did, if the latest step was one
  pending,        \* per chain, blocks not yet scanned to their end (history)
  run,            \* whether the run was free of failures so far (history)
  probe           \* the transaction is_valid_transaction is applied to

vars == << env, pc, bot_instance, wallets, wallet_names, last_blocks, ci,
           current_block, block_num, tasks, exc, scanlog, fetched, last_send,
           sig, pending, run, probe >>

\* scanlog[c]: st is "none" (not reached), "skipped", "scanning", "done" or
\* "raised"; H the head read (-1: none); c0 the cursor when the scan began;
\* failed the block whose fetch raised (0: none); rcpt whether a receipt
\* lookup raised; want the number of fetched transactions that match and are
\* valid; made the number of alert tasks created.
NoLog == [st |-> "none", H |-> -1, c0 |-> -1, failed |-> 0, rcpt |-> FALSE,
          want |-> 0, made |-> 0]
\* fetched: the chain, number and transactions of the block, the number of
\* tasks its processing created and the exception that ended it.
NoBlock == [chain |-> NoneVal, num |-> -1, txs |-> << >>, made |-> 0, exc |-> "none"]
EmptyLog == [c \in ChainSet |-> NoLog]

\* run: clean says that so far no RPC call failed, no processing step raised
\* and no head read was below the cursor; while clean, seen[c] is the set of
\* block numbers fetched for c and twice says that one was fetched again.
\* The record is frozen at DirtyRun once the run is no longer clean.
CleanRun == [clean |-> TRUE, seen |-> [c \in ChainSet |-> {}], twice |-> FALSE]
DirtyRun == [clean |-> FALSE, seen |-> [c \in ChainSet |-> {}], twice |-> FALSE]

\* probe: tx is the transaction handed to is_valid_transaction on its own,
\* result what it returned ("none": not yet applied, "off": no probe).
NoProbe == [tx |-> Tx(NoneVal, NoneVal, "none", "absent"), result |-> "off"]

\* The process before main has run.
Loaded ==
  /\ pc = "main"
  /\ bot_instance = FALSE
  /\ wallets = << >>
  /\ wallet_names = << >>
  /\ last_blocks = << >>
  /\ ci = 0
  /\ current_block = -1
  /\ block_num = -1
  /\ tasks = << >>
  /\ exc = "none"
  /\ scanlog = EmptyLog
  /\ fetched = NoBlock
  /\ last_send = "none"
  /\ sig = "none"
  /\ pending = [c \in ChainSet |-> {}]
  /\ run = CleanRun

Init ==
  /\ env \in [ token : BOOLEAN, chat : BOOLEAN,
               wallets : [ChainSet -> EnvWalletLists],
               names : [ChainSet -> EnvNameLists] ]
  /\ probe = NoProbe
  /\ Loaded

\* ------------------------------------------------------- pure helpers
\* Python's `x in list`.
Contains(list, x) == \E i \in 1..Len(list) : list[i] = x

\* list.index(x): position of the first occurrence (1-based here, so the
\* Python index is one less).
index(list, x) == CHOOSE i \in 1..Len(list) :
                    list[i] = x /\ \A j \in 1..(i - 1) : list[j] # x

\* The test of lines 185-186.
IsTracked(c, tx) ==
  \/ Contains(wallets[c], tx.from)
  \/ (tx.to # NoneVal /\ Contains(wallets[c], tx.to))

\* Variant of is_valid_transaction: a receipt lookup that raises rejects the
\* transaction.
is_valid_strict(tx) ==
  tx.hash = "ok" /\ tx.receipt \in {"ok", "absent"}

\* is_valid_transaction: the hash checks (lines 132-144), then the receipt
\* (lines 151-159).  A receipt lookup that raises, or returns None, falls
\* through to `return True`.  from_wei of line 147 takes the value of a mined
\* transaction, an unsigned 256-bit integer, which it converts without error.
is_valid_transaction(tx) ==
  IF tx.hash = "none" THEN FALSE
  ELSE IF tx.hash = "short" THEN FALSE
  ELSE IF tx.receipt = "failed" THEN FALSE
  ELSE TRUE

\* Lines 194-198: position of the address in self.wallets[chain] (0 stands
\* for the -1 sentinel) and the subscript into self.wallet_names[chain],
\* which raises IndexError past the end of the label list.
from_index(c, tx) ==
  IF Contains(wallets[c], tx.from) THEN index(wallets[c], tx.from) ELSE 0
to_index(c, tx) ==
  IF tx.to # NoneVal /\ Contains(wallets[c], tx.to)
  THEN index(wallets[c], tx.to) ELSE 0

LabelRaises(c, i) == i # 0 /\ i > Len(wallet_names[c])

from_name(c, tx) ==
  IF from_index(c, tx) # 0 THEN wallet_names[c][from_index(c, tx)] ELSE tx.from
to_name(c, tx) ==
  IF to_index(c, tx) # 0 THEN wallet_names[c][to_index(c, tx)]
  ELSE IF tx.to # NoneVal THEN tx.to ELSE "Contract Creation"

\* Lines 201-209: the rendered alert, kept as the fields it is rendered from.
Alert(c, b, i, tx) ==
  [chain |-> c, block |-> b, idx |-> i, tx |-> tx,
   from_name |-> from_name(c, tx), to_name |-> to_name(c, tx)]

\* Variant of create_task: the new task is put in front of the queue.
create_task_front(queue, alert) == << alert >> \o queue

\* asyncio.create_task(self.send_telegram_message(...)): the task joins the
\* event loop's ready queue behind the tasks created before it.
create_task(queue, alert) == Append(queue, alert)

\* Variant of Dispatch: one alert for the sender's match and one for the
\* recipient's.
DispatchPerSide(queue, c, b, i, tx) ==
  IF Contains(wallets[c], tx.from) /\ tx.to # NoneVal /\ Contains(wallets[c], tx.to)
  THEN create_task(create_task(queue, Alert(c, b, i, tx)), Alert(c, b, i, tx))
  ELSE create_task(queue, Alert(c, b, i, tx))

\* Lines 200-212 for one accepted transaction: one alert is rendered and one
\* task created, whichever of the two addresses matched.
Dispatch(queue, c, b, i, tx) == create_task(queue, Alert(c, b, i, tx))

\* The loop body of lines 183-212 on the transactions of one block, from
\* position i on: acc.alerts is the task queue, acc.exc the exception
\* that ended the loop ("none" when it ran to the end of the block).
RECURSIVE ProcessTxs(_, _, _, _, _)
ProcessTxs(c, b, txs, i, acc) ==
  IF i > Len(txs) THEN acc
  ELSE LET tx == txs[i] IN
    IF ~IsTracked(c, tx) THEN ProcessTxs(c, b, txs, i + 1, acc)
    ELSE IF ~is_valid_transaction(tx)
      THEN ProcessTxs(c, b, txs, i + 1,
                      [acc EXCEPT !.filtered = acc.filtered + 1])
    ELSE IF LabelRaises(c, from_index(c, tx)) \/ LabelRaises(c, to_index(c, tx))
      THEN [acc EXCEPT !.exc = "IndexError"]
    ELSE ProcessTxs(c, b, txs, i + 1,
                    [acc EXCEPT !.alerts = Dispatch(acc.alerts, c, b, i, tx),
                                !.processed = acc.processed + 1])

\* The transactions of a block that, by the contract of the scanner and of
\* the validator, are to be alerted on: sender tracked, or recipient present
\* and tracked; hash well-formed; no receipt that reports failure.  Stated on
\* the tracked set, apart from the code's operators; read by the history
\* variables only.
Tracked(c) == { wallets[c][k] : k \in 1..Len(wallets[c]) }
Matched(c, tx) == tx.from \in Tracked(c) \/ (tx.to # NoneVal /\ tx.to \in Tracked(c))
Accepted(tx) == tx.hash = "ok" /\ tx.receipt \in {"ok", "absent", "error"}
Eligible(c, txs) == { i \in 1..Len(txs) : Matched(c, txs[i]) /\ Accepted(txs[i]) }

\* ---------------------------------------------------------------- main
\* Variant of MainCheck: the credential check of lines 247-249 is left out
\* and main goes on to build the tracker whatever the environment holds.
MainCheckLate ==
  /\ pc = "main"
  /\ pc' = "construct"
  /\ bot_instance' = TRUE
  /\ fetched' = NoBlock
  /\ sig' = "none"
  /\ UNCHANGED << pending, run, probe >>
  /\ UNCHANGED << env, wallets, wallet_names, last_blocks, ci, current_block,
                  block_num, tasks, exc, scanlog, last_send >>

\* Lines 243-252: the credential check.
MainCheck ==
  /\ pc = "main"
  /\ IF ~env.token \/ ~env.chat
     THEN /\ pc' = "exited"
          /\ exc' = "MissingCredential"
          /\ UNCHANGED bot_instance
     ELSE /\ pc' = "construct"
          /\ bot_instance' = TRUE
          /\ UNCHANGED exc
  /\ fetched' = NoBlock
  /\ sig' = "none"
  /\ UNCHANGED << pending, run, probe >>
  /\ UNCHANGED << env, wallets, wallet_names, last_blocks, ci, current_block,
                  block_num, tasks, scanlog, last_send >>

\* Lines 91-93 for one chain: every address lower-cased and checksummed.
Normalized(raw) == [i \in 1..Len(raw) |-> to_checksum_address(lower(raw[i]))]
Malformed(raw) == \E i \in 1..Len(raw) : ~is_hex_address(lower(raw[i]))

\* Lines 261-267 and WalletTracker.__init__ (lines 65-105).  ValueError from
\* to_checksum_address and any error of eth.block_number leave __init__ and
\* main uncaught.
Construct ==
  /\ pc = "construct"
  /\ LET raw   == [c \in ChainSet |-> safe_split(env.wallets[c])]
         names == [c \in ChainSet |-> safe_split(env.names[c])]
     IN IF \E c \in ChainSet : Malformed(raw[c])
        THEN /\ pc' = "crashed"
             /\ exc' = "InvalidAddress"
             /\ UNCHANGED << wallets, wallet_names, last_blocks, pending >>
        ELSE \/ /\ wallets' = [c \in ChainSet |-> Normalized(raw[c])]
                /\ wallet_names' = names
                /\ \E heads \in [ChainSet -> 0..MaxHead] :
                     /\ last_blocks' = heads
                     /\ pending' = [c \in ChainSet |-> (heads[c] + 1)..MaxHead]
                /\ pc' = "startup_msg"
                /\ UNCHANGED exc
             \/ /\ pc' = "crashed"
                /\ exc' = "NetworkError"
                /\ UNCHANGED << wallets, wallet_names, last_blocks, pending >>
  /\ fetched' = NoBlock
  /\ sig' = "none"
  /\ UNCHANGED << run, probe >>
  /\ UNCHANGED << env, bot_instance, ci, current_block, block_num, tasks,
                  scanlog, last_send >>

\* The top of `while True` in start_tracking: check_wallet_transactions is
\* called and starts at the first chain.
BeginTick ==
  /\ pc' = "chain"
  /\ ci' = 1
  /\ exc' = "none"
  /\ scanlog' = EmptyLog
  /\ current_block' = -1
  /\ block_num' = -1

\* Lines 269-280: the startup message, sent or not, then start_tracking.
StartupMsg ==
  /\ pc = "startup_msg"
  /\ \E sent \in BOOLEAN :
       last_send' = IF sent THEN "startup_ok" ELSE "startup_failed"
  /\ BeginTick
  /\ fetched' = NoBlock
  /\ sig' = "none"
  /\ UNCHANGED << pending, run, probe >>
  /\ UNCHANGED << env, bot_instance, wallets, wallet_names, last_blocks, tasks >>

\* ------------------------------------------- check_wallet_transactions
Chain == Chains[ci]

\* Variant of Raise: the exception is not caught by start_tracking and ends
\* the process.
RaiseOut(e) ==
  /\ pc' = "crashed"
  /\ exc' = e

\* An exception leaves check_wallet_transactions (nothing inside it catches)
\* and lands in the `except Exception` of start_tracking, line 232, which
\* logs it and sleeps: the chains after Chain are not visited in this tick.
Raise(e) ==
  /\ pc' = "sleep"
  /\ exc' = e

\* Variant of SkipChain: `return` in the place of `continue`.
SkipChainReturn ==
  /\ pc = "chain" /\ ci <= Len(Chains)
  /\ (Chain \notin DOMAIN wallets \/ wallets[Chain] = << >>)
  /\ pc' = "sleep"
  /\ scanlog' = [scanlog EXCEPT ![Chain].st = "skipped"]
  /\ fetched' = NoBlock
  /\ sig' = "none"
  /\ UNCHANGED << pending, run, probe >>
  /\ UNCHANGED << env, ci, bot_instance, wallets, wallet_names, last_blocks,
                  current_block, block_num, tasks, exc, last_send >>

\* Lines 172-173: a chain without tracked wallets is skipped.
SkipChain ==
  /\ pc = "chain" /\ ci <= Len(Chains)
  /\ (Chain \notin DOMAIN wallets \/ wallets[Chain] = << >>)
  /\ ci' = ci + 1
  /\ scanlog' = [scanlog EXCEPT ![Chain].st = "skipped"]
  /\ fetched' = NoBlock
  /\ sig' = "none"
  /\ UNCHANGED << pending, run, probe >>
  /\ UNCHANGED << env, pc, bot_instance, wallets, wallet_names, last_blocks,
                  current_block, block_num, tasks, exc, last_send >>

\* Line 175: the head is read once; line 180 starts the range after the
\* cursor.
QueryHead ==
  /\ pc = "chain" /\ ci <= Len(Chains)
  /\ Chain \in DOMAIN wallets /\ wallets[Chain] # << >>
  /\ \E H \in 0..MaxHead :
       /\ current_block' = H
       /\ scanlog' = [scanlog EXCEPT ![Chain] =
                        [NoLog EXCEPT !.st = "scanning", !.H = H,
                                      !.c0 = last_blocks[Chain]]]
       /\ run' = IF H < last_blocks[Chain] THEN DirtyRun ELSE run
  /\ block_num' = last_blocks[Chain] + 1
  /\ pc' = "blocks"
  /\ fetched' = NoBlock
  /\ sig' = "none"
  /\ UNCHANGED << pending, probe >>
  /\ UNCHANGED << env, bot_instance, wallets, wallet_names, last_blocks, ci,
                  tasks, exc, last_send >>

\* Line 175 raising (RPC failure of eth.block_number).
QueryHeadFail ==
  /\ pc = "chain" /\ ci <= Len(Chains)
  /\ Chain \in DOMAIN wallets /\ wallets[Chain] # << >>
  /\ Raise("NetworkError")
  /\ scanlog' = [scanlog EXCEPT ![Chain].st = "raised"]
  /\ run' = DirtyRun
  /\ fetched' = NoBlock
  /\ sig' = "none"
  /\ UNCHANGED << pending, probe >>
  /\ UNCHANGED << env, bot_instance, wallets, wallet_names, last_blocks, ci,
                  current_block, block_num, tasks, last_send >>

Acc(queue) == [alerts |-> queue, exc |-> "none", processed |-> 0, filtered |-> 0]

\* Lines 181-212 for one block of the range: the block is fetched and its
\* transactions are processed in order; the tasks created join the queue.
\* The IndexError of a missing label leaves the scan like any exception.
FetchBlock ==
  /\ pc = "blocks" /\ block_num <= current_block
  /\ \E txs \in Blocks :
       LET r == ProcessTxs(Chain, block_num, txs, 1, Acc(tasks))
           made == Len(r.alerts) - Len(tasks)
           log == [scanlog[Chain] EXCEPT
                     !.want = @ + Cardinality(Eligible(Chain, txs)),
                     !.made = @ + made,
                     !.rcpt = @ \/ \E i \in 1..Len(txs) : txs[i].receipt = "error"]
           handed == { r.alerts[k].idx : k \in (Len(tasks) + 1)..Len(r.alerts) }
           rpcfail == \E i \in 1..Len(txs) :
                        /\ IsTracked(Chain, txs[i])
                        /\ txs[i].hash = "ok" /\ txs[i].receipt = "error"
       IN /\ tasks' = r.alerts
          /\ fetched' = [chain |-> Chain, num |-> block_num, txs |-> txs,
                         made |-> made, exc |-> r.exc]
          /\ pending' = [pending EXCEPT ![Chain] =
                           IF r.exc = "none" /\ Eligible(Chain, txs) \subseteq handed
                           THEN @ \ {block_num} ELSE @ \cup {block_num}]
          /\ run' = IF ~run.clean \/ r.exc # "none" \/ rpcfail
                    THEN DirtyRun
                    ELSE [run EXCEPT !.seen[Chain] = @ \cup {block_num},
                                     !.twice = @ \/ block_num \in run.seen[Chain]]
          /\ IF r.exc # "none"
             THEN /\ Raise(r.exc)
                  /\ scanlog' = [scanlog EXCEPT ![Chain] = [log EXCEPT !.st = "raised"]]
                  /\ UNCHANGED block_num
             ELSE /\ block_num' = block_num + 1
                  /\ scanlog' = [scanlog EXCEPT ![Chain] = log]
                  /\ UNCHANGED << pc, exc >>
  /\ sig' = "none"
  /\ UNCHANGED << env, bot_instance, wallets, wallet_names, last_blocks, ci,
                  current_block, last_send, probe >>

\* Line 181 raising (RPC failure of eth.get_block).
FetchBlockFail ==
  /\ pc = "blocks" /\ block_num <= current_block
  /\ Raise("NetworkError")
  /\ scanlog' = [scanlog EXCEPT ![Chain].st = "raised", ![Chain].failed = block_num]
  /\ run' = DirtyRun
  /\ fetched' = NoBlock
  /\ sig' = "none"
  /\ UNCHANGED << pending, probe >>
  /\ UNCHANGED << env, bot_instance, wallets, wallet_names, last_blocks, ci,
                  current_block, block_num, tasks, last_send >>

\* Variant of NewCursor: the cursor is left where it was.
NewCursorStale(cursor, head) == cursor

\* Variant of NewCursor: the cursor is put one block past the head.
NewCursorPast(cursor, head) == head + 1

\* The cursor after the range, line 218.
NewCursor(cursor, head) == head

\* Lines 215-218: the range is exhausted (or was empty); the cursor is set to
\* the head read at line 175 and the for loop goes to the next chain.
FinishChain ==
  /\ pc = "blocks" /\ block_num > current_block
  /\ last_blocks' = [last_blocks EXCEPT ![Chain] = NewCursor(@, current_block)]
  /\ scanlog' = [scanlog EXCEPT ![Chain].st = "done"]
  /\ ci' = ci + 1
  /\ pc' = "chain"
  /\ fetched' = NoBlock
  /\ sig' = "none"
  /\ UNCHANGED << pending, run, probe >>
  /\ UNCHANGED << env, bot_instance, wallets, wallet_names, current_block,
                  block_num, tasks, exc, last_send >>

\* check_wallet_transactions returns; start_tracking awaits the sleep of
\* line 231.
EndScan ==
  /\ pc = "chain" /\ ci > Len(Chains)
  /\ pc' = "sleep"
  /\ fetched' = NoBlock
  /\ sig' = "none"
  /\ UNCHANGED << pending, run, probe >>
  /\ UNCHANGED << env, bot_instance, wallets, wallet_names, last_blocks, ci,
                  current_block, block_num, tasks, exc, scanlog, last_send >>

\* ------------------------------------------------- the event loop
\* Variant of AfterSendError: the alert whose send raised is queued again.
AfterSendErrorRetry(queue) == Append(Tail(queue), Head(queue))

\* What send_telegram_message leaves of the queue when its send raised:
\* the exception is caught and logged (lines 115-116), the task is over.
AfterSendError(queue) == Tail(queue)

\* Variant of send_telegram_message: creating the task runs it, so an alert
\* is sent while the scan that created it is still going through the blocks.
send_inline ==
  /\ pc \in {"sleep", "blocks"} /\ tasks # << >>
  /\ \E ok \in BOOLEAN :
       IF ok THEN /\ tasks' = Tail(tasks)
                  /\ last_send' = "ok"
             ELSE /\ tasks' = AfterSendError(tasks)
                  /\ last_send' = "failed"
  /\ fetched' = NoBlock
  /\ sig' = "none"
  /\ UNCHANGED << pending, run, probe >>
  /\ UNCHANGED << env, pc, bot_instance, wallets, wallet_names, last_blocks,
                  ci, current_block, block_num, exc, scanlog >>

\* send_telegram_message, lines 107-116: a task runs only while
\* start_tracking is suspended in asyncio.sleep.  The transport accepts the
\* message or raises; either way the coroutine returns normally.
send_telegram_message ==
  /\ pc = "sleep" /\ tasks # << >>
  /\ \E ok \in BOOLEAN :
       IF ok THEN /\ tasks' = Tail(tasks)
                  /\ last_send' = "ok"
             ELSE /\ tasks' = AfterSendError(tasks)
                  /\ last_send' = "failed"
  /\ fetched' = NoBlock
  /\ sig' = "none"
  /\ UNCHANGED << pending, run, probe >>
  /\ UNCHANGED << env, pc, bot_instance, wallets, wallet_names, last_blocks,
                  ci, current_block, block_num, exc, scanlog >>

\* The sleep of line 231 or 234 is over: the next iteration of `while True`.
Wake ==
  /\ pc = "sleep" /\ Len(tasks) <= MaxCarry
  /\ BeginTick
  /\ last_send' = "none"
  /\ fetched' = NoBlock
  /\ sig' = "none"
  /\ UNCHANGED << pending, run, probe >>
  /\ UNCHANGED << env, bot_instance, wallets, wallet_names, last_blocks, tasks >>

\* signal_handler, lines 31-52, run by the interpreter in the main thread at
\* whatever point the signal finds it.  Without a bot (line 37) it goes
\* straight to sys.exit(0).  With a bot, main is running inside asyncio.run,
\* so get_event_loop (line 41) returns the running loop and
\* run_until_complete (line 46) raises RuntimeError before the message is
\* scheduled; nothing in the handler catches it and line 48 is not reached.
\* The RuntimeError surfaces in the code the signal interrupted:
\*   - WalletTracker.__init__: it leaves main and asyncio.run;
\*   - the scan: line 232 catches it like any exception of the scan;
\*   - the startup message: line 275 catches it, or, while the send is
\*     awaited and the loop is idle, it leaves the loop and asyncio.run;
\*   - the sleep: it leaves the idle loop and asyncio.run; or it hits a task
\*     inside send_telegram_message, where line 115 catches it; or it hits
\*     the handler of lines 232-234 before the sleep is awaited, leaves
\*     start_tracking and is caught by main at line 281, which sends the
\*     "stopped" message (lines 284-289) and returns.
\* The delivery points are the boundaries of the model's steps.
signal_handler ==
  /\ pc \notin {"exited", "crashed"}
  /\ IF ~bot_instance
     THEN /\ pc' = "exited"
          /\ exc' = "SystemExit"
          /\ sig' = "exit"
          /\ UNCHANGED << ci, current_block, block_num, tasks, scanlog,
                          last_send, run >>
     ELSE /\ run' = DirtyRun
          /\ \/ /\ pc \in {"construct", "startup_msg", "sleep"}
                /\ pc' = "crashed"
                /\ exc' = "RuntimeError"
                /\ sig' = "crash"
                /\ UNCHANGED << ci, current_block, block_num, tasks, scanlog,
                                last_send >>
             \/ /\ pc \in {"chain", "blocks"}
                /\ Raise("RuntimeError")
                /\ sig' = "caught"
                /\ scanlog' = IF pc = "blocks"
                              THEN [scanlog EXCEPT ![Chain].st = "raised"]
                              ELSE scanlog
                /\ UNCHANGED << ci, current_block, block_num, tasks, last_send >>
             \/ /\ pc = "startup_msg"
                /\ last_send' = "startup_failed"
                /\ BeginTick
                /\ sig' = "caught"
                /\ UNCHANGED tasks
             \/ /\ pc = "sleep" /\ tasks # << >>
                /\ tasks' = AfterSendError(tasks)
                /\ last_send' = "failed"
                /\ sig' = "caught"
                /\ UNCHANGED << pc, exc, ci, current_block, block_num, scanlog >>
             \/ /\ pc = "sleep" /\ exc # "none"
                /\ last_send \notin {"ok", "failed"}
                /\ \E sent \in BOOLEAN :
                     last_send' = IF sent THEN "stopped_ok" ELSE "stopped_failed"
                /\ pc' = "exited"
                /\ exc' = "RuntimeError"
                /\ sig' = "fatal"
                /\ UNCHANGED << ci, current_block, block_num, tasks, scanlog >>
  /\ fetched' = NoBlock
  /\ UNCHANGED << env, bot_instance, wallets, wallet_names, last_blocks,
                  pending, probe >>

Next ==
  \/ MainCheck
  \/ Construct
  \/ StartupMsg
  \/ SkipChain
  \/ QueryHead
  \/ QueryHeadFail
  \/ FetchBlock
  \/ FetchBlockFail
  \/ FinishChain
  \/ EndScan
  \/ send_telegram_message
  \/ Wake
  \/ signal_handler

Spec == Init /\ [][Next]_vars

\* The steps the program takes by itself.  asyncio.run keeps running main
\* and every task it created, the scan is synchronous code that runs to its
\* end, every RPC call and every send returns or raises, and asyncio.sleep
\* returns after the interval: the program is never stuck while one of its
\* steps is possible.  Which way a call goes, and whether a signal arrives,
\* is up to the environment and is not constrained.
Step ==
  \/ MainCheck
  \/ Construct
  \/ StartupMsg
  \/ SkipChain
  \/ QueryHead
  \/ QueryHeadFail
  \/ FetchBlock
  \/ FetchBlockFail
  \/ FinishChain
  \/ EndScan
  \/ send_telegram_message
  \/ Wake

\* Environments of the fair runs: both credentials are set; ethereum tracks
\* two addresses, with one label or with two; base tracks nothing, or (when
\* ethereum has one label) the same two addresses with both labels.
FairEnv(both, short) ==
  [ token |-> TRUE, chat |-> TRUE,
    wallets |-> [c \in ChainSet |-> IF c = "ethereum" \/ both
                                    THEN << "a1", " A2" >> ELSE << "" >>],
    names |-> [c \in ChainSet |-> IF c = "ethereum" /\ short
                                  THEN << "N1" >> ELSE << "N1", "N2" >>] ]
FairEnvs ==
  { FairEnv(q[1], q[2]) : q \in { r \in BOOLEAN \X BOOLEAN : r[1] => r[2] } }

FairInit ==
  /\ env \in FairEnvs
  /\ probe = NoProbe
  /\ Loaded

FairSpec == FairInit /\ [][Next]_vars /\ WF_vars(Step)

\* is_valid_transaction on its own: every combination of sender, recipient,
\* hash and receipt outcome is handed to it once.
AllTxs ==
  { Tx(f, t, h, r) : f \in {"A1", "A2", "X"}, t \in {"A1", "A2", "X", NoneVal},
                     h \in {"ok", "short", "none"},
                     r \in {"ok", "failed", "absent", "error"} }

ValidInit ==
  /\ env = FairEnv(TRUE, TRUE)
  /\ probe \in [tx : AllTxs, result : {"none"}]
  /\ Loaded

Validate ==
  /\ probe.result = "none"
  /\ probe' = [probe EXCEPT !.result =
                 IF is_valid_transaction(probe.tx) THEN "True" ELSE "False"]
  /\ UNCHANGED << env, pc, bot_instance, wallets, wallet_names, last_blocks,
                  ci, current_block, block_num, tasks, exc, scanlog, fetched,
                  last_send, sig, pending, run >>

ValidSpec == ValidInit /\ [][Validate]_vars

\* ============================================================ properties
\* Vocabulary of the properties.
ScanEnded(c) == scanlog[c].st \in {"done", "raised"} /\ scanlog[c].H >= 0
Constructed == pc \in {"startup_msg", "chain", "blocks", "sleep"}
Running == pc \in {"chain", "blocks", "sleep"}
JustFetched == fetched.chain # NoneVal
\* The scan of the current tick was ended by the exception of a signal handler.
Interrupted == exc = "RuntimeError"
\* The tasks the block just fetched created: the last fetched.made of the queue.
NewTasks == SubSeq(tasks, Len(tasks) - fetched.made + 1, Len(tasks))
AlertsOf(i) == { k \in 1..Len(NewTasks) : NewTasks[k].idx = i }
BothTracked(c, tx) ==
  tx.from \in Tracked(c) /\ tx.to # NoneVal /\ tx.to \in Tracked(c)
\* Position of a tracked address in the configured list, 0 when untracked.
PosOf(c, a) ==
  IF a \in Tracked(c)
  THEN CHOOSE k \in 1..Len(wallets[c]) :
         wallets[c][k] = a /\ \A j \in 1..(k - 1) : wallets[c][j] # a
  ELSE 0
Unlabelled(c, a) == a \in Tracked(c) /\ PosOf(c, a) > Len(wallet_names[c])

\* C1: for every chain and tick in which the head H read is above the cursor,
\* once the scan of the chain has ended the cursor equals H if no block fetch
\* of the range failed, and is unchanged if the first fetch of the range failed.
\* (Ticks cut short by a signal are left aside.)
C1_Claim ==
  \A c \in ChainSet :
    (Running /\ ScanEnded(c) /\ scanlog[c].H > scanlog[c].c0 /\ ~Interrupted) =>
      /\ (scanlog[c].failed = 0 => last_blocks[c] = scanlog[c].H)
      /\ (scanlog[c].failed = scanlog[c].c0 + 1 => last_blocks[c] = scanlog[c].c0)

\* C2: at the end of a tick with two chains that both track addresses, if
\* get_block failed for one chain and no call of the other failed, then,
\* whichever chain is the failing one, the other chain was scanned, its cursor
\* is the head it read and its alerts were handed over, while the failing
\* chain's cursor is where it was; the loop is still running.
C2_Claim ==
  \A f \in ChainSet : \A h \in ChainSet \ {f} :
    ( /\ pc = "sleep"
      /\ wallets[f] # << >> /\ wallets[h] # << >>
      /\ scanlog[f].failed # 0
      /\ scanlog[h].st # "raised" ) =>
        /\ scanlog[h].st = "done"
        /\ last_blocks[h] = scanlog[h].H
        /\ scanlog[h].made = scanlog[h].want
        /\ last_blocks[f] = scanlog[f].c0

\* C3: with a label list shorter than the address list, a matched and valid
\* transaction whose tracked sender or recipient has no label is alerted on
\* with the raw address as the name; the lookup raises nothing, the scan ends
\* normally and the cursor advances.
C3_Claim ==
  /\ exc # "IndexError"
  /\ JustFetched =>
       \A i \in 1..Len(fetched.txs) :
         LET c == fetched.chain
             tx == fetched.txs[i]
         IN (Matched(c, tx) /\ Accepted(tx)) =>
              /\ (Unlabelled(c, tx.from) =>
                    \E k \in AlertsOf(i) : NewTasks[k].from_name = tx.from)
              /\ (tx.to # NoneVal /\ Unlabelled(c, tx.to) =>
                    \E k \in AlertsOf(i) : NewTasks[k].to_name = tx.to)

\* C4: the cursor of every chain never decreases, whatever heads the RPC
\* reports and whichever calls fail.
C4_Claim ==
  [][ \A c \in (DOMAIN last_blocks) \cap (DOMAIN last_blocks') :
        last_blocks'[c] >= last_blocks[c] ]_vars

\* C5: no alert is handed over for a matched transaction whose receipt was
\* retrieved with a failure status, and a matched transaction with a
\* well-formed hash whose receipt lookup raised is accepted and alerted on.
C5_Claim ==
  /\ \A k \in 1..Len(tasks) : tasks[k].tx.receipt # "failed"
  /\ JustFetched =>
       \A i \in 1..Len(fetched.txs) :
         LET tx == fetched.txs[i]
         IN (Matched(fetched.chain, tx) /\ tx.hash = "ok" /\ tx.receipt = "error")
              => AlertsOf(i) # {}

C7_Thm ==
  [][ (last_send' = "failed" /\ tasks' # tasks) =>
        /\ pc = "sleep" /\ pc' = "sleep"
        /\ last_blocks' = last_blocks
        /\ exc' = exc
        /\ scanlog' = scanlog
        /\ tasks' = Tail(tasks) ]_vars

C7_Witness ==
  /\ pc = "sleep" /\ last_send = "failed" /\ exc = "none" /\ tasks = << >>
  /\ \E c \in ChainSet :
       /\ scanlog[c].st = "done" /\ scanlog[c].made > 0
       /\ scanlog[c].H > scanlog[c].c0 /\ last_blocks[c] = scanlog[c].H

\* The alerts of the current tick that are still in the queue: tasks leave
\* the queue from the front, so they are its last entries.
MadeThisTick == scanlog[Chains[1]].made + scanlog[Chains[2]].made
TickAlerts ==
  LET n == IF MadeThisTick < Len(tasks) THEN MadeThisTick ELSE Len(tasks)
  IN SubSeq(tasks, Len(tasks) - n + 1, Len(tasks))

\* C8: for each chain, the alerts created during one tick are handed over in
\* ascending block order, and those of one block in transaction order.
C8_Thm ==
  Running =>
    \A i \in 1..Len(TickAlerts) : \A j \in 1..Len(TickAlerts) :
      (i < j /\ TickAlerts[i].chain = TickAlerts[j].chain) =>
        \/ TickAlerts[i].block < TickAlerts[j].block
        \/ /\ TickAlerts[i].block = TickAlerts[j].block
           /\ TickAlerts[i].idx < TickAlerts[j].idx

C8_Witness ==
  /\ pc = "sleep" /\ Len(TickAlerts) >= 3
  /\ TickAlerts[1].chain = TickAlerts[3].chain
  /\ TickAlerts[1].block = TickAlerts[2].block
  /\ TickAlerts[1].idx < TickAlerts[2].idx
  /\ TickAlerts[2].block < TickAlerts[3].block

\* C9: in a scan of a chain in which no RPC call fails, the alerts created are
\* exactly one for each transaction of the blocks of the range that matches
\* and passes validation, each naming its own block, and the cursor ends at
\* the head.  (Ticks cut short by a signal are left aside.)
C9_Claim ==
  /\ \A c \in ChainSet :
       ( /\ Running /\ ScanEnded(c) /\ scanlog[c].H > scanlog[c].c0
         /\ ~Interrupted
         /\ scanlog[c].failed = 0 /\ ~scanlog[c].rcpt ) =>
           /\ scanlog[c].st = "done"
           /\ scanlog[c].made = scanlog[c].want
           /\ last_blocks[c] = scanlog[c].H
  /\ (JustFetched /\ \A i \in 1..Len(fetched.txs) : fetched.txs[i].receipt # "error") =>
       /\ \A i \in 1..Len(fetched.txs) :
            Cardinality(AlertsOf(i)) =
              IF i \in Eligible(fetched.chain, fetched.txs) THEN 1 ELSE 0
       /\ \A k \in 1..Len(NewTasks) :
            NewTasks[k].block = fetched.num /\ NewTasks[k].chain = fetched.chain

\* C10: a malformed address in a configured list is dropped at startup: the
\* tracker is constructed, the well-formed addresses of the chain are tracked
\* and the loop starts.
WellFormed(raw) == SelectSeq(raw, LAMBDA a : is_hex_address(lower(a)))
HasMalformed ==
  \E c \in ChainSet : Malformed(safe_split(env.wallets[c]))
C10_Claim ==
  (env.token /\ env.chat /\ HasMalformed /\ (Constructed \/ pc = "crashed")) =>
    /\ exc # "InvalidAddress"
    /\ (pc # "crashed" =>
          \A c \in ChainSet :
            wallets[c] = Normalized(WellFormed(safe_split(env.wallets[c]))))

\* ---------------------------------------------------------------- C11
\* C11: when the bot token or the chat id is absent from the environment the
\* process exits before the loop runs: main never gets past the credential
\* check, so no bot and no tracker is constructed (no wallet list, no label
\* list, no cursor read from an RPC client), no scan step is executed, no
\* alert task exists and no notification is sent.
MissingCredential == ~env.token \/ ~env.chat

C11_Thm ==
  MissingCredential =>
    /\ pc \in {"main", "exited"}
    /\ bot_instance = FALSE
    /\ wallets = << >> /\ wallet_names = << >> /\ last_blocks = << >>
    /\ scanlog = EmptyLog /\ ~JustFetched
    /\ tasks = << >> /\ last_send = "none"

\* The chat id is missing, the token is not, and main has exited.
C11_Witness ==
  /\ env.token /\ ~env.chat
  /\ pc = "exited" /\ exc = "MissingCredential"

\* ---------------------------------------------------------------- C12
\* C12: once the loop is running it stops running only in a step of the
\* signal handler; an exception raised during a scan, whatever raised it,
\* leaves the loop in its sleep, and from the sleep that follows such an
\* exception the loop goes on to the next tick (unless a signal ends the
\* process first).
C12_Thm ==
  /\ [][ (Running /\ ~Running') => sig' \in {"crash", "fatal"} ]_vars
  /\ [][ (pc \in {"chain", "blocks"} /\ exc' # "none") => pc' = "sleep" ]_vars
  /\ [](pc = "sleep" => ENABLED (send_telegram_message \/ Wake))
  /\ ((pc = "sleep" /\ exc # "none") ~> (pc = "chain" \/ ~Running))

\* The scan of a tick raised (an RPC failure or a missing label), the loop is
\* in the sleep that follows and nothing stands between it and the next tick.
C12_Witness ==
  /\ pc = "sleep" /\ exc \in {"NetworkError", "IndexError"}
  /\ Len(tasks) <= MaxCarry

\* ---------------------------------------------------------------- C13
\* C13: whenever the signal handler has run, the process has exited: with a
\* bot the handler attempts the "stopped" notification once and then exits,
\* whether the send went through or raised.
C13_Claim ==
  sig # "none" => pc \in {"exited", "crashed"}

\* ---------------------------------------------------------------- C14
\* C14: no block is passed by the cursor without its alerts.  pending[c]
\* holds the blocks above the startup head of c that have not been scanned
\* to their end with an alert task created for each transaction that matched
\* and passed validation in that scan (a block fetched again is judged by
\* its latest fetch).  At every moment each such block is still above the
\* cursor, so every block b with startup head < b <= cursor has had each of
\* its matching valid transactions handed over; and a block processed to
\* its end has an alert for each of them.
C14_Thm ==
  /\ \A c \in DOMAIN last_blocks :
       \A b \in pending[c] : b > last_blocks[c]
  /\ (JustFetched /\ fetched.exc = "none") =>
       \A i \in Eligible(fetched.chain, fetched.txs) : AlertsOf(i) # {}

\* A scan moved the cursor over two blocks and created alerts for them.
C14_Witness ==
  \E c \in ChainSet :
    /\ pc = "sleep" /\ scanlog[c].st = "done"
    /\ scanlog[c].H = scanlog[c].c0 + 2 /\ last_blocks[c] = scanlog[c].H
    /\ scanlog[c].want >= 2 /\ scanlog[c].made = scanlog[c].want
    /\ pending[c] \cap (1..last_blocks[c]) = {}

\* ---------------------------------------------------------------- C15
\* C15: when the head H read for a chain is not above the cursor (H equal to
\* the cursor or below it) the scan of the chain does nothing: no block is
\* fetched, no alert is created and the cursor is what it was.
C15_Claim ==
  /\ \A c \in ChainSet :
       (Running /\ scanlog[c].st = "done" /\ scanlog[c].H <= scanlog[c].c0) =>
         /\ last_blocks[c] = scanlog[c].c0
         /\ scanlog[c].made = 0
  /\ JustFetched => scanlog[fetched.chain].H > scanlog[fetched.chain].c0

\* ---------------------------------------------------------------- C16
\* C16: in a fair run without signals and without a missing label, a chain
\* that tracks addresses and whose own scan never raises is scanned to the
\* head it reports again and again, however often the RPC calls of the other
\* chain fail.
C16_Claim ==
  \A h \in ChainSet :
    ( /\ [](sig = "none")
      /\ [](exc # "IndexError")
      /\ [](scanlog[h].st # "raised")
      /\ <>(Running /\ wallets[h] # << >>) )
    => []<>(scanlog[h].st = "done")

IsPrefix(p, q) == Len(p) <= Len(q) /\ SubSeq(q, 1, Len(p)) = p
ScanOver == exc # "none" \/ ci > Len(Chains)

C18_Thm ==
  /\ [][ (pc \in {"chain", "blocks"}) => IsPrefix(tasks, tasks') ]_vars
  /\ [](pc = "blocks" => (ENABLED FetchBlock \/ ENABLED FinishChain))
  /\ [][ Len(tasks') < Len(tasks) =>
          /\ pc = "sleep" /\ pc' = "sleep" /\ ScanOver
          /\ last_blocks' = last_blocks ]_vars
  /\ []((pc = "sleep" /\ tasks # << >>) => ENABLED send_telegram_message)

\* A scan created an alert for block 1, the fetch of block 2 raised, and in
\* the sleep that followed the alert was sent.
C18_Witness ==
  /\ pc = "sleep" /\ exc = "NetworkError" /\ last_send = "ok" /\ tasks = << >>
  /\ \E c \in ChainSet : scanlog[c].made >= 1 /\ scanlog[c].failed = 2

\* ---------------------------------------------------------------- C19
\* C19: as long as no RPC call has failed, no processing step has raised and
\* no head read was below the cursor, no block number of a chain has been
\* fetched twice and no transaction has caused two alerts: a fetched block
\* creates at most one task for each of its transactions, and no two tasks
\* of the queue stand for the same transaction.
C19_Thm ==
  run.clean =>
    /\ ~run.twice
    /\ JustFetched =>
         \A i \in 1..Len(fetched.txs) : Cardinality(AlertsOf(i)) <= 1
    /\ \A j \in 1..Len(tasks) : \A k \in 1..Len(tasks) :
         ( /\ tasks[j].chain = tasks[k].chain
           /\ tasks[j].block = tasks[k].block
           /\ tasks[j].idx = tasks[k].idx ) => j = k

\* Two ticks without a failure scanned block 1 and then block 2 of a chain,
\* each with an alert.
C19_Witness ==
  /\ run.clean /\ pc = "sleep"
  /\ \E c \in ChainSet :
       /\ run.seen[c] = {1, 2}
       /\ scanlog[c].st = "done" /\ scanlog[c].c0 = 1 /\ scanlog[c].H = 2
       /\ scanlog[c].made >= 1

\* ---------------------------------------------------------------- C20
\* C20: a chain whose tracked set is empty is left untouched by every tick:
\* its head is not read, none of its blocks is fetched, no alert names it
\* and its cursor stays where the startup read put it; the tick goes on to
\* the other chains, so that a chain with tracked addresses has been visited
\* by the time the loop sleeps (unless a signal cut the tick short).
C20_Thm ==
  /\ [](Running =>
         \A c \in ChainSet :
           wallets[c] = << >> =>
             /\ scanlog[c].st \in {"none", "skipped"}
             /\ scanlog[c].H = -1 /\ scanlog[c].made = 0
             /\ \A k \in 1..Len(tasks) : tasks[k].chain # c
             /\ (JustFetched => fetched.chain # c)
             /\ pending[c] = (last_blocks[c] + 1)..MaxHead)
  /\ [][ (Running /\ Running') =>
          \A c \in ChainSet :
            wallets[c] = << >> => last_blocks'[c] = last_blocks[c] ]_vars
  /\ []((pc = "sleep" /\ ~Interrupted) =>
         \A c \in ChainSet : \A d \in ChainSet :
           (wallets[c] = << >> /\ wallets[d] # << >>) =>
             scanlog[d].st \in {"done", "raised"})

\* ethereum tracks nothing and was skipped; base was scanned in the same
\* tick, moved its cursor and created an alert.
C20_Witness ==
  /\ pc = "sleep" /\ wallets[Chains[1]] = << >>
  /\ scanlog[Chains[1]].st = "skipped"
  /\ scanlog[Chains[2]].st = "done" /\ scanlog[Chains[2]].made >= 1
  /\ last_blocks[Chains[2]] > scanlog[Chains[2]].c0

====
